---------------------------- MODULE Spec2Model ----------------------------
(***************************************************************************)
(* A model of lunax/models/utils.py: k-fold cross-validation over a        *)
(* user-supplied model (_cross_validate) and the two metric evaluators     *)
(* (reg_evaluate, clf_evaluate).                                           *)
(*                                                                         *)
(* Real numbers are modelled exactly: a metric value is a normalised       *)
(* rational, the square root of one, or NaN.  Floating-point rounding      *)
(* error is outside the model.  The library routines the source calls      *)
(* (scikit-learn's splitters and metrics, numpy's seeded generator) are    *)
(* modelled by what they compute at the place where the source calls them. *)
(***************************************************************************)
EXTENDS Integers, Sequences, FiniteSets

\* ------------------------------------------------------------- bounds

\* Largest number of rows of a cross-validated dataset.
MaxN == 5
\* Largest number of rows of a dataset that is cross-validated twice.
RerunRows == 4
\* Largest number of rows handed to reg_evaluate / clf_evaluate.
EvalRows == 3
\* Target values of the cross-validated and the regression datasets.
Targets == {0, 1}
\* Class labels handed to clf_evaluate (binary and multi-class problems).
Labels == {0, 1, 2}

\* --------------------------------------------------------- arithmetic

Abs(a) == IF a < 0 THEN -a ELSE a

RECURSIVE Gcd(_, _)
Gcd(a, b) == IF b = 0 THEN a ELSE Gcd(b, a % b)

RECURSIVE Pow10(_)
Pow10(p) == IF p = 0 THEN 1 ELSE 10 * Pow10(p - 1)

\* A real value: kind "rat" is n/d (d > 0, lowest terms), kind "sqrt" is the
\* square root of n/d (n/d not a perfect square), kind "nan" is float NaN.
NaN == [kind |-> "nan", n |-> 0, d |-> 0]

Rat(a, b) ==
    LET s == IF b < 0 THEN -1 ELSE 1
        g == Gcd(Abs(a), Abs(b))
    IN  [kind |-> "rat", n |-> (s * a) \div g, d |-> (s * b) \div g]

Zero == Rat(0, 1)
One == Rat(1, 1)

IsNaN(v) == v.kind = "nan"

Add(p, q) == IF IsNaN(p) \/ IsNaN(q) THEN NaN
             ELSE Rat(p.n * q.d + q.n * p.d, p.d * q.d)

Sub(p, q) == IF IsNaN(p) \/ IsNaN(q) THEN NaN
             ELSE Rat(p.n * q.d - q.n * p.d, p.d * q.d)

Mul(p, q) == IF IsNaN(p) \/ IsNaN(q) THEN NaN
             ELSE Rat(p.n * q.n, p.d * q.d)

\* p / m for a positive integer m.
DivInt(p, m) == IF IsNaN(p) THEN NaN ELSE Rat(p.n, p.d * m)

IsSquare(a) == \E r \in 0..a : r * r = a

IntSqrt(a) == CHOOSE r \in 0..a : r * r = a

\* numpy.sqrt of a non-negative rational.
Sqrt(q) ==
    IF IsNaN(q) THEN NaN
    ELSE IF IsSquare(q.n) /\ IsSquare(q.d) THEN Rat(IntSqrt(q.n), IntSqrt(q.d))
    ELSE [kind |-> "sqrt", n |-> q.n, d |-> q.d]

RECURSIVE SumSeq(_)
SumSeq(s) == IF s = <<>> THEN Zero ELSE Add(Head(s), SumSeq(Tail(s)))

\* ---------------------------------------------------------- formatting

\* round-half-even of a / b (b > 0) to an integer.
RoundDiv(a, b) ==
    LET q == a \div b
        r == a % b
    IN  IF 2 * r < b THEN q
        ELSE IF 2 * r > b THEN q + 1
        ELSE IF q % 2 = 0 THEN q ELSE q + 1

\* The integer nearest to sqrt(a / b) * 10^p.
RoundSqrt(a, b, p) ==
    LET top == 4 * a * Pow10(p) * Pow10(p)
        hi  == ((a \div b) + 1) * Pow10(p)
    IN  CHOOSE r \in 0..hi :
            /\ (2 * r - 1) * (2 * r - 1) * b <= top \/ r = 0
            /\ top < (2 * r + 1) * (2 * r + 1) * b

\* Python's f"{v:.<p>f}": the decimal string with p digits after the point,
\* held as the integer it shows scaled by 10^p ("0.75" is 75 at p = 2), or "nan".
Fmt(v, p) ==
    IF IsNaN(v) THEN [text |-> "nan", scaled |-> 0, digits |-> p]
    ELSE IF v.kind = "sqrt"
         THEN [text |-> "num", scaled |-> RoundSqrt(v.n, v.d, p), digits |-> p]
    ELSE [text |-> "num", scaled |-> RoundDiv(v.n * Pow10(p), v.d), digits |-> p]


\* ------------------------------------------------- the seeded generator

\* The low three bits of the first 48 outputs of MT19937 seeded with 42, the
\* generator numpy.random.RandomState(42) draws from.
MT42 ==
    << 6, 3, 4, 6, 2, 7, 4, 4, 6, 1, 2, 6, 2, 2, 7, 4, 3, 7, 7, 2, 5, 4, 1, 7,
       3, 5, 5, 1, 7, 3, 4, 0, 3, 1, 5, 4, 3, 0, 0, 2, 2, 6, 1, 7, 3, 3, 7, 6 >>

\* The same of another seed: what a generator seeded from fresh entropy may draw.
MTFresh ==
    << 4, 7, 5, 0, 3, 3, 3, 7, 1, 3, 5, 2, 4, 7, 6, 0, 0, 4, 2, 1, 6, 7, 7, 6,
       0, 1, 5, 1, 5, 0, 1, 4, 3, 0, 3, 5, 6, 7, 7, 0, 2, 3, 0, 1, 3, 5, 3, 3 >>

\* random_state=None: only the first call of the process draws the stream of 42.
UnseededStream(call) == IF call = 1 THEN MT42 ELSE MTFresh

\* random_state=42 (lines 27 and 30): every call draws the same stream.
RandomStream(call) == MT42

\* The smallest 2^b - 1 that is >= max, plus one.
RECURSIVE MaskSize(_, _)
MaskSize(max, m) == IF m - 1 >= max THEN m ELSE MaskSize(max, 2 * m)

\* numpy's random_interval: masked draws, rejected until one is <= max.
RECURSIVE RandomInterval(_, _, _)
RandomInterval(stream, pos, max) ==
    LET v == stream[pos + 1] % MaskSize(max, 1)
    IN  IF v <= max THEN [value |-> v, pos |-> pos + 1]
        ELSE RandomInterval(stream, pos + 1, max)

Swap(x, i, j) == [x EXCEPT ![i] = x[j], ![j] = x[i]]

\* RandomState.shuffle: for i = n-1 down to 1, swap x[i] with x[j], j drawn
\* from 0..i.  x is held 1-based; i is the 0-based index.
RECURSIVE ShuffleFrom(_, _, _, _)
ShuffleFrom(x, stream, pos, i) ==
    IF i < 1 THEN [arr |-> x, pos |-> pos]
    ELSE LET r == RandomInterval(stream, pos, i)
         IN  ShuffleFrom(Swap(x, i + 1, r.value + 1), stream, r.pos, i - 1)

Shuffle(x, stream, pos) == ShuffleFrom(x, stream, pos, Len(x) - 1)

\* ------------------------------------------------------------ splitters

\* The members of a set of row indices in ascending order (numpy's boolean
\* mask indexing).
RECURSIVE Ascending(_)
Ascending(S) ==
    IF S = {} THEN <<>>
    ELSE LET m == CHOOSE x \in S : \A z \in S : x <= z
         IN  <<m>> \o Ascending(S \ {m})

Range(s) == {s[i] : i \in 1..Len(s)}

\* A pair whose training rows are all the rows, the validation rows included.
FoldPairAllRows(n, test) ==
    [train |-> Ascending(0..(n - 1)), val |-> Ascending(test)]

\* One (train_idx, val_idx) pair from the validation rows of a fold: the
\* training rows are the rows outside the validation mask.
FoldPair(n, test) ==
    [train |-> Ascending((0..(n - 1)) \ test), val |-> Ascending(test)]

\* KFold._iter_test_indices: the first n % k folds have n \div k + 1 rows.
FoldSize(n, k, i) == (n \div k) + (IF i < n % k THEN 1 ELSE 0)

RECURSIVE FoldStart(_, _, _)
FoldStart(n, k, i) == IF i = 0 THEN 0 ELSE FoldStart(n, k, i - 1) + FoldSize(n, k, i - 1)

\* KFold(n_splits=k, shuffle=True, random_state=...).split(X) on n rows.
KFoldSplit(n, k, stream) ==
    IF k > n THEN [ok |-> FALSE, folds |-> <<>>]
    ELSE LET indices == Shuffle([i \in 1..n |-> i - 1], stream, 0).arr
             test(i) == {indices[j] : j \in (FoldStart(n, k, i) + 1)..FoldStart(n, k, i + 1)}
         IN  [ok |-> TRUE, folds |-> [f \in 1..k |-> FoldPair(n, test(f - 1))]]

\* np.unique + class_perm: each label's class number in order of first appearance.
RECURSIVE FirstSeen(_, _)
FirstSeen(y, i) ==
    IF i = 0 THEN <<>>
    ELSE LET before == FirstSeen(y, i - 1)
         IN  IF y[i] \in Range(before) THEN before ELSE Append(before, y[i])

ClassOf(order, label) == (CHOOSE c \in 1..Len(order) : order[c] = label) - 1

\* The class numbers of the rows, y_encoded (1-based sequence of 0-based classes).
Encode(y) == LET order == FirstSeen(y, Len(y))
             IN  [i \in 1..Len(y) |-> ClassOf(order, y[i])]

CountOf(s, c) == Cardinality({i \in 1..Len(s) : s[i] = c})

\* np.sort(y_encoded).
RECURSIVE SortedClasses(_, _, _)
SortedClasses(enc, c, nc) ==
    IF c = nc THEN <<>>
    ELSE [i \in 1..CountOf(enc, c) |-> c] \o SortedClasses(enc, c + 1, nc)

\* allocation[i][c]: the rows of class c among y_order[i::k].
Allocation(yorder, k, i, c) ==
    Cardinality({j \in 1..Len(yorder) : (j - 1) % k = i /\ yorder[j] = c})

\* np.arange(k).repeat(allocation[:, c]).
RECURSIVE FoldsForClass(_, _, _, _)
FoldsForClass(yorder, k, c, i) ==
    IF i = k THEN <<>>
    ELSE [j \in 1..Allocation(yorder, k, i, c) |-> i] \o FoldsForClass(yorder, k, c, i + 1)

\* test_folds[y_encoded == c] = folds: the j-th row of class c gets folds[j].
Assign(testFolds, enc, c, folds) ==
    [r \in 1..Len(enc) |->
        IF enc[r] = c THEN folds[Cardinality({q \in 1..r : enc[q] = c})]
        ELSE testFolds[r]]

\* The loop over the classes of StratifiedKFold._make_test_folds; one generator
\* is shared by the shuffles of all classes.
RECURSIVE MakeTestFolds(_, _, _, _, _, _, _)
MakeTestFolds(testFolds, enc, yorder, k, c, stream, pos) ==
    IF c = Cardinality(Range(enc)) THEN testFolds
    ELSE LET sh == Shuffle(FoldsForClass(yorder, k, c, 0), stream, pos)
         IN  MakeTestFolds(Assign(testFolds, enc, c, sh.arr), enc, yorder, k,
                           c + 1, stream, sh.pos)

\* StratifiedKFold(n_splits=k, shuffle=True, random_state=...).split(X, y).
StratifiedKFoldSplit(y, k, stream) ==
    LET n == Len(y)
        enc == Encode(y)
        nc == Cardinality(Range(enc))
    IN  IF k > n \/ (\A c \in 0..(nc - 1) : k > CountOf(enc, c))
        THEN [ok |-> FALSE, folds |-> <<>>]
        ELSE LET yorder == SortedClasses(enc, 0, nc)
                 tf == MakeTestFolds([r \in 1..n |-> -1], enc, yorder, k, 0, stream, 0)
             IN  [ok |-> TRUE,
                  folds |-> [f \in 1..k |->
                               FoldPair(n, {r - 1 : r \in {q \in 1..n : tf[q] = f - 1}})]]


\* -------------------------------------------------------------- metrics

\* The positions of two equally long sequences.
Rows(yt) == 1..Len(yt)

\* sklearn.metrics.accuracy_score.
AccuracyScore(yt, yp) ==
    Rat(Cardinality({i \in Rows(yt) : yt[i] = yp[i]}), Len(yt))

TP(yt, yp, c) == Cardinality({i \in Rows(yt) : yt[i] = c /\ yp[i] = c})
FP(yt, yp, c) == Cardinality({i \in Rows(yt) : yt[i] # c /\ yp[i] = c})
FN(yt, yp, c) == Cardinality({i \in Rows(yt) : yt[i] = c /\ yp[i] # c})

\* a / b, and 0 where b = 0 (zero_division as 0).
SafeDiv(a, b) == IF b = 0 THEN Zero ELSE Rat(a, b)

\* The labels of y_true and y_pred in ascending order.
LabelsOf(yt, yp) == Ascending(Range(yt) \cup Range(yp))

\* average='weighted': the per-class scores (one per label of LabelsOf)
\* weighted by the class's support in y_true.
WeightedOver(yt, yp, scores) ==
    SumSeq([i \in 1..Len(scores) |->
              Mul(Rat(TP(yt, yp, LabelsOf(yt, yp)[i]) + FN(yt, yp, LabelsOf(yt, yp)[i]),
                      Len(yt)),
                  scores[i])])

ClassPrecision(yt, yp, c) == SafeDiv(TP(yt, yp, c), TP(yt, yp, c) + FP(yt, yp, c))
ClassRecall(yt, yp, c) == SafeDiv(TP(yt, yp, c), TP(yt, yp, c) + FN(yt, yp, c))
ClassF1(yt, yp, c) ==
    SafeDiv(2 * TP(yt, yp, c), 2 * TP(yt, yp, c) + FP(yt, yp, c) + FN(yt, yp, c))

\* precision_score(average='weighted', zero_division=0).
PrecisionScore(yt, yp) ==
    WeightedOver(yt, yp, [i \in 1..Len(LabelsOf(yt, yp)) |->
                            ClassPrecision(yt, yp, LabelsOf(yt, yp)[i])])
\* recall_score(average='weighted').
RecallScore(yt, yp) ==
    WeightedOver(yt, yp, [i \in 1..Len(LabelsOf(yt, yp)) |->
                            ClassRecall(yt, yp, LabelsOf(yt, yp)[i])])
\* f1_score(average='weighted').
F1Score(yt, yp) ==
    WeightedOver(yt, yp, [i \in 1..Len(LabelsOf(yt, yp)) |->
                            ClassF1(yt, yp, LabelsOf(yt, yp)[i])])

RECURSIVE SumInts(_)
SumInts(s) == IF s = <<>> THEN 0 ELSE Head(s) + SumInts(Tail(s))

SquaredErrors(yt, yp) == [i \in Rows(yt) |-> (yt[i] - yp[i]) * (yt[i] - yp[i])]

\* sklearn.metrics.mean_squared_error.
MeanSquaredError(yt, yp) == Rat(SumInts(SquaredErrors(yt, yp)), Len(yt))

\* sklearn.metrics.mean_absolute_error.
MeanAbsoluteError(yt, yp) ==
    Rat(SumInts([i \in Rows(yt) |-> Abs(yt[i] - yp[i])]), Len(yt))

\* sklearn.metrics.root_mean_squared_error.
RootMeanSquaredError(yt, yp) == Sqrt(MeanSquaredError(yt, yp))

\* m times the total sum of squares of yt about its mean: m * sum(y^2) - sum(y)^2.
ScaledTotalSS(yt) ==
    Len(yt) * SumInts([i \in Rows(yt) |-> yt[i] * yt[i]]) - SumInts(yt) * SumInts(yt)

\* r2_score without its special cases: 1 - SS_res / SS_tot, NaN for 0 / 0 and
\* for a division of a non-zero residual by zero (-inf is not kept apart).
R2Plain(yt, yp) ==
    IF ScaledTotalSS(yt) = 0 THEN NaN
    ELSE Sub(One, Rat(Len(yt) * SumInts(SquaredErrors(yt, yp)), ScaledTotalSS(yt)))

\* sklearn.metrics.r2_score (force_finite): NaN on fewer than two samples; with
\* a constant y_true, 1 for a perfect prediction and 0 otherwise.
R2Score(yt, yp) ==
    IF Len(yt) < 2 THEN NaN
    ELSE IF SumInts(SquaredErrors(yt, yp)) = 0 THEN One
    ELSE IF ScaledTotalSS(yt) = 0 THEN Zero
    ELSE Sub(One, Rat(Len(yt) * SumInts(SquaredErrors(yt, yp)), ScaledTotalSS(yt)))


\* ---------------------------------------------------------------- state

VARIABLES
    pc,             \* _cross_validate: the position in the function
    y,              \* the target column, one value per row of X (row r is y[r + 1])
    k_fold,         \* the number of folds asked for
    is_classifier,  \* the metric pair and the splitter
    call,           \* how many times _cross_validate was entered on these inputs
    folds,          \* the (train_idx, val_idx) pairs split_data has produced
    fold,           \* the loop variable of line 35 (0 before the first iteration)
    fitted,         \* the rows the model was last fitted on
    y_pred,         \* the predictions of the current fold
    preds,          \* the predictions the model returned in this call, by fold
    fold_scores,    \* the list of line 33
    out,            \* the lines printed by this call
    calls,          \* the fit / predict calls the model received in this call
    prev,           \* what the previous call on the same inputs produced
    epc,            \* reg_evaluate / clf_evaluate: the position in the function
    args,           \* the arguments of the evaluator call
    metrics,        \* the evaluator's local metric values
    auc,            \* clf_evaluate's local auc
    printed,        \* the tables printed by the evaluator call
    caught,         \* whether the except clause of line 127 ran in this call
    result,         \* the mapping the evaluator returned
    first,          \* the first of two evaluator calls: its arguments and outcome
    build           \* what the installed roc_auc_score does on a single class

cvVars == <<pc, y, k_fold, is_classifier, call, folds, fold, fitted, y_pred,
            preds, fold_scores, out, calls, prev>>
evVars == <<epc, args, metrics, auc, printed, caught, result, first, build>>
vars == <<cvVars, evVars>>

\* Python's None where a float may stand (the local auc).
None == [kind |-> "none", n |-> 0, d |-> 0]
\* y_pred_proba=None.
NoProba == [ndim |-> 0, rows |-> <<>>]
\* A local or a result that has not been assigned.
Unset == [unset |-> TRUE]
\* A model that was never fitted.
Unfitted == <<>>

\* All sequences over S of length lo..hi.
SeqsOf(S, lo, hi) == UNION {[1..m -> S] : m \in lo..hi}

\* ------------------------------------------------------ _cross_validate

\* The evaluator is not running.
EvalIdle ==
    /\ epc = "idle" /\ args = Unset /\ metrics = Unset /\ auc = None
    /\ printed = <<>> /\ caught = FALSE /\ result = Unset /\ first = Unset
    /\ build = "raise"

CVInit(rows) ==
    /\ pc = "start"
    /\ y \in SeqsOf(Targets, 1, rows)
    /\ k_fold \in 1..(rows + 1)
    /\ is_classifier \in BOOLEAN
    /\ call = 1
    /\ folds = <<>>
    /\ fold = 0
    /\ fitted = Unfitted
    /\ y_pred = <<>>
    /\ preds = <<>>
    /\ fold_scores = <<>>
    /\ out = <<>>
    /\ calls = <<>>
    /\ prev = Unset
    /\ EvalIdle

\* Lines 26-31: the splitter of the call.  split() is a generator: it runs
\* when the loop of line 35 first asks it for a pair.
SplitData ==
    IF is_classifier THEN StratifiedKFoldSplit(y, k_fold, RandomStream(call))
    ELSE KFoldSplit(Len(y), k_fold, RandomStream(call))

\* Lines 26-33.  The splitters' constructors reject n_splits <= 1.
Begin ==
    /\ pc = "start"
    /\ pc' = IF k_fold < 2 THEN "raised" ELSE "loop"
    /\ fold_scores' = <<>>
    /\ UNCHANGED <<y, k_fold, is_classifier, call, folds, fold, fitted, y_pred,
                   preds, out, calls, prev, evVars>>

\* Line 35: the next (train_idx, val_idx) of enumerate(split_data, 1), and the
\* slices of lines 36-37.  The first request runs the splitter, which raises
\* on more folds than rows (or than the members of every class).
Iterate ==
    /\ pc = "loop"
    /\ IF fold = 0 /\ ~SplitData.ok
       THEN pc' = "raised" /\ UNCHANGED <<folds, fold>>
       ELSE /\ folds' = IF fold = 0 THEN SplitData.folds ELSE folds
            /\ IF fold < Len(folds')
               THEN fold' = fold + 1 /\ pc' = "fit"
               ELSE fold' = fold /\ pc' = "average"
    /\ UNCHANGED <<y, k_fold, is_classifier, call, fitted, y_pred, preds,
                   fold_scores, out, calls, prev, evVars>>

\* Line 36: X.iloc[train_idx] and X.iloc[val_idx], as the rows they hold.
TrainRows == folds[fold].train

\* X.iloc[train_idx] where the validation slice is meant.
LeakedRows == folds[fold].train

ValRows == folds[fold].val

\* Line 37: y.iloc[val_idx].
YVal == [i \in 1..Len(ValRows) |-> y[ValRows[i] + 1]]

\* Line 39: model.fit(X_train, y_train) returns.
Fit ==
    /\ pc = "fit"
    /\ calls' = Append(calls, [op |-> "fit", fold |-> fold, rows |-> TrainRows, ok |-> TRUE])
    /\ fitted' = TrainRows
    /\ pc' = "predict"
    /\ UNCHANGED <<y, k_fold, is_classifier, call, folds, fold, y_pred, preds,
                   fold_scores, out, prev, evVars>>

\* model.fit raises inside a try block that skips the fold.
FitRaisesSwallowed ==
    /\ pc = "fit"
    /\ calls' = Append(calls, [op |-> "fit", fold |-> fold, rows |-> TrainRows, ok |-> FALSE])
    /\ pc' = "loop"
    /\ UNCHANGED <<y, k_fold, is_classifier, call, folds, fold, fitted, y_pred,
                   preds, fold_scores, out, prev, evVars>>

\* Line 39: model.fit raises; nothing catches it.
FitRaises ==
    /\ pc = "fit"
    /\ calls' = Append(calls, [op |-> "fit", fold |-> fold, rows |-> TrainRows, ok |-> FALSE])
    /\ pc' = "raised"
    /\ UNCHANGED <<y, k_fold, is_classifier, call, folds, fold, fitted, y_pred,
                   preds, fold_scores, out, prev, evVars>>

\* BaseModel.predict(features) -> predictions: one value per row; nothing
\* else is known of the model, so any values may come back.
ModelPredictions(rows) == [1..Len(rows) -> Targets]

\* Line 40: model.predict(X_val) returns.
Predict ==
    /\ pc = "predict"
    /\ calls' = Append(calls, [op |-> "predict", fold |-> fold, rows |-> ValRows, ok |-> TRUE])
    /\ y_pred' \in ModelPredictions(ValRows)
    /\ preds' = Append(preds, y_pred')
    /\ pc' = "score"
    /\ UNCHANGED <<y, k_fold, is_classifier, call, folds, fold, fitted,
                   fold_scores, out, prev, evVars>>

\* Line 40: model.predict raises; nothing catches it.
PredictRaises ==
    /\ pc = "predict"
    /\ calls' = Append(calls, [op |-> "predict", fold |-> fold, rows |-> ValRows, ok |-> FALSE])
    /\ pc' = "raised"
    /\ UNCHANGED <<y, k_fold, is_classifier, call, folds, fold, fitted, y_pred,
                   preds, fold_scores, out, prev, evVars>>

\* The two metrics of a fold (lines 43-44, 48-49).
FoldScore ==
    IF is_classifier
    THEN [accuracy |-> AccuracyScore(YVal, y_pred), f1 |-> F1Score(YVal, y_pred)]
    ELSE [mse |-> MeanSquaredError(YVal, y_pred), r2 |-> R2Score(YVal, y_pred)]

\* The values of a score record in the order they are printed.
Pair(score) == IF is_classifier THEN <<score.accuracy, score.f1>>
               ELSE <<score.mse, score.r2>>

MetricNames == IF is_classifier THEN <<"Accuracy", "F1">> ELSE <<"MSE", "R2">>

\* enumerate(split_data, 0): the folds numbered from 0.
FoldNumberFromZero == fold - 1

\* enumerate(split_data, 1) (line 35): the number printed for the current fold.
FoldNumber == fold

\* Lines 46 and 51: "Fold i/k - <name>: <v:.4f>, <name>: <v:.4f>".
FoldLine(score) ==
    [kind |-> "fold", fold |-> FoldNumber, of |-> k_fold, names |-> MetricNames,
     values |-> <<Fmt(Pair(score)[1], 4), Fmt(Pair(score)[2], 4)>>]

\* Lines 42-51: the fold's scores are kept and printed.
Score ==
    /\ pc = "score"
    /\ fold_scores' = Append(fold_scores, FoldScore)
    /\ out' = Append(out, FoldLine(FoldScore))
    /\ pc' = "loop"
    /\ UNCHANGED <<y, k_fold, is_classifier, call, folds, fold, fitted, y_pred,
                   preds, calls, prev, evVars>>

\* The mean weighted by the sizes of the validation folds (the pooled score).
PooledMean(vals) ==
    DivInt(SumSeq([i \in 1..Len(vals) |-> Mul(vals[i], Rat(Len(folds[i].val), 1))]),
           SumInts([i \in 1..Len(vals) |-> Len(folds[i].val)]))

\* np.mean of a list of per-fold values (lines 55-56, 59-60).
NpMean(vals) == DivInt(SumSeq(vals), Len(vals))

\* Lines 57 and 61: "Average scores - <name>: <v:.4f>, <name>: <v:.4f>".
AverageLine ==
    [kind |-> "average", fold |-> 0, of |-> 0, names |-> MetricNames,
     values |->
        <<Fmt(NpMean([i \in 1..Len(fold_scores) |-> Pair(fold_scores[i])[1]]), 4),
          Fmt(NpMean([i \in 1..Len(fold_scores) |-> Pair(fold_scores[i])[2]]), 4)>>]

\* Lines 54-61, and the return.
Average ==
    /\ pc = "average"
    /\ out' = Append(out, AverageLine)
    /\ pc' = "returned"
    /\ UNCHANGED <<y, k_fold, is_classifier, call, folds, fold, fitted, y_pred,
                   preds, fold_scores, calls, prev, evVars>>

\* _cross_validate is called again with the same model, X, y, k_fold and
\* is_classifier; what the first call produced is kept for comparison.
Rerun ==
    /\ pc = "returned"
    /\ call = 1
    /\ prev' = [folds |-> folds, out |-> out, preds |-> preds]
    /\ call' = 2
    /\ pc' = "start"
    /\ folds' = <<>>
    /\ fold' = 0
    /\ y_pred' = <<>>
    /\ preds' = <<>>
    /\ fold_scores' = <<>>
    /\ out' = <<>>
    /\ calls' = <<>>
    /\ UNCHANGED <<y, k_fold, is_classifier, fitted, evVars>>

CVNext ==
    \/ Begin
    \/ Iterate
    \/ Fit
    \/ FitRaises
    \/ Predict
    \/ PredictRaises
    \/ Score
    \/ Average

\* One call of _cross_validate on any dataset of up to MaxN rows.
SpecCV == CVInit(MaxN) /\ [][CVNext]_vars

\* Two calls of _cross_validate on the same inputs, one after the other.
SpecRerun == CVInit(RerunRows) /\ [][CVNext \/ Rerun]_vars


\* ----------------------------------------------------------- evaluators

\* _cross_validate is not running.
CVIdle ==
    /\ pc = "idle" /\ y = <<>> /\ k_fold = 0 /\ is_classifier = FALSE /\ call = 0
    /\ folds = <<>> /\ fold = 0 /\ fitted = Unfitted /\ y_pred = <<>> /\ preds = <<>>
    /\ fold_scores = <<>> /\ out = <<>> /\ calls = <<>> /\ prev = Unset

\* Probabilities are held in halves: 0, 1, 2 stand for 0.0, 0.5, 1.0.
Levels == {0, 1, 2}

\* The rows of a probability matrix of c columns that sum to one.
ProbaRows(c) == {r \in [1..c -> Levels] : SumInts(r) = 2}

\* A three-column row of one-hot probabilities.
OneHot3 == {r \in ProbaRows(3) : \E i \in 1..3 : r[i] = 2}

\* The y_pred_proba arguments of a call on m rows: None; a one-dimensional
\* array (as predict_proba(X)[:, 1] would be); two-column matrices of
\* probabilities; three-column matrices of one-hot probabilities; and a
\* three-column matrix whose rows do not sum to one.
ProbaArgs(m) ==
    {NoProba}
    \cup {[ndim |-> 1, rows |-> [i \in 1..m |-> v]] : v \in Levels}
    \cup {[ndim |-> 2, rows |-> rs] : rs \in [1..m -> ProbaRows(2)]}
    \cup {[ndim |-> 2, rows |-> rs] : rs \in [1..m -> OneHot3]}
    \cup {[ndim |-> 2, rows |-> [i \in 1..m |-> <<2, 2, 2>>]]}

\* The arguments of a reg_evaluate call: numeric y_true and y_pred of one length.
RegArgs ==
    {[fn |-> "reg", y_true |-> yt, y_pred |-> yp, y_pred_proba |-> NoProba, log_info |-> li] :
        yt \in SeqsOf(Targets, 1, EvalRows), yp \in SeqsOf(Targets, 1, EvalRows),
        li \in BOOLEAN}

\* The arguments of a clf_evaluate call: any predicted labels where no
\* probabilities are passed; with probabilities, the perfect prediction or
\* the constant one.
ClfArgs ==
    {a \in [fn : {"clf"}, y_true : SeqsOf(Labels, 1, EvalRows),
            y_pred : SeqsOf(Labels, 1, EvalRows),
            y_pred_proba : UNION {ProbaArgs(m) : m \in 1..EvalRows},
            log_info : BOOLEAN] :
        /\ Len(a.y_pred) = Len(a.y_true)
        /\ a.y_pred_proba # NoProba =>
              /\ Len(a.y_pred_proba.rows) = Len(a.y_true)
              /\ a.y_pred = a.y_true \/ \A i \in Rows(a.y_pred) : a.y_pred[i] = 0}

EvInit ==
    /\ CVIdle
    /\ epc = "start"
    /\ args \in {a \in RegArgs : Len(a.y_true) = Len(a.y_pred)} \cup ClfArgs
    /\ metrics = Unset
    /\ auc = None
    /\ printed = <<>>
    /\ caught = FALSE
    /\ result = Unset
    /\ first = Unset
    /\ build \in IF args.fn = "clf" THEN {"raise", "nan"} ELSE {"raise"}

\* pandas Series.min / max / mean / std (ddof = 1) / median of y_true.
SeriesMin(yt) == Rat(CHOOSE v \in Range(yt) : \A w \in Range(yt) : v <= w, 1)
SeriesMax(yt) == Rat(CHOOSE v \in Range(yt) : \A w \in Range(yt) : v >= w, 1)
SeriesMean(yt) == Rat(SumInts(yt), Len(yt))
SeriesStd(yt) ==
    IF Len(yt) < 2 THEN NaN
    ELSE Sqrt(Rat(ScaledTotalSS(yt), Len(yt) * (Len(yt) - 1)))

\* The values of a sequence in ascending order.
RECURSIVE SortSeq(_)
SortSeq(q) ==
    IF q = <<>> THEN <<>>
    ELSE LET i == CHOOSE a \in 1..Len(q) : \A b \in 1..Len(q) : q[a] <= q[b]
         IN  <<q[i]>> \o SortSeq([j \in 1..(Len(q) - 1) |-> IF j < i THEN q[j] ELSE q[j + 1]])

SeriesMedian(yt) ==
    LET srt == SortSeq(yt)
        m == Len(yt)
    IN  IF m % 2 = 1 THEN Rat(srt[(m + 1) \div 2], 1)
        ELSE Rat(srt[m \div 2] + srt[(m \div 2) + 1], 2)

\* Lines 74-77.
RegCompute ==
    /\ epc = "start" /\ args.fn = "reg"
    /\ metrics' = [rmse |-> RootMeanSquaredError(args.y_true, args.y_pred),
                   mse |-> MeanSquaredError(args.y_true, args.y_pred),
                   mae |-> MeanAbsoluteError(args.y_true, args.y_pred),
                   r2 |-> R2Score(args.y_true, args.y_pred)]
    /\ epc' = "log"
    /\ UNCHANGED <<cvVars, args, auc, printed, caught, result, first, build>>

\* Lines 81-83 and 87-88: the two tables, every number as f"{v:.2f}".
RegTables ==
    << [title |-> "[lunax]> target value description:",
        header |-> <<"min", "max", "mean", "std", "median">>,
        row |-> <<Fmt(SeriesMin(args.y_true), 2), Fmt(SeriesMax(args.y_true), 2),
                  Fmt(SeriesMean(args.y_true), 2), Fmt(SeriesStd(args.y_true), 2),
                  Fmt(SeriesMedian(args.y_true), 2)>>],
       [title |-> "[lunax]> model evaluation results:",
        header |-> <<"rmse", "mse", "mae", "r2">>,
        row |-> <<Fmt(metrics.rmse, 2), Fmt(metrics.mse, 2),
                  Fmt(metrics.mae, 2), Fmt(metrics.r2, 2)>>] >>

\* Lines 78-89.
RegLog ==
    /\ epc = "log" /\ args.fn = "reg"
    /\ printed' = IF args.log_info THEN RegTables ELSE <<>>
    /\ epc' = "return"
    /\ UNCHANGED <<cvVars, args, metrics, auc, caught, result, first, build>>

\* A formatted table cell read back as a number.
Parsed(cell) == IF cell.text = "nan" THEN NaN ELSE Rat(cell.scaled, Pow10(cell.digits))

\* The mapping built from the cells of the metrics table when it was printed.
RegResultFromTable ==
    IF printed = <<>> THEN metrics
    ELSE [rmse |-> Parsed(printed[2].row[1]), mse |-> Parsed(printed[2].row[2]),
          mae |-> Parsed(printed[2].row[3]), r2 |-> Parsed(printed[2].row[4])]

\* Lines 91-96: the mapping of the four locals.
RegResult ==
    [rmse |-> metrics.rmse, mse |-> metrics.mse, mae |-> metrics.mae, r2 |-> metrics.r2]

\* Lines 91-96.
RegReturn ==
    /\ epc = "return" /\ args.fn = "reg"
    /\ result' = RegResult
    /\ epc' = "returned"
    /\ UNCHANGED <<cvVars, args, metrics, auc, printed, caught, first, build>>

\* Lines 112-115.
ClfCompute ==
    /\ epc = "start" /\ args.fn = "clf"
    /\ metrics' = [accuracy |-> AccuracyScore(args.y_true, args.y_pred),
                   precision |-> PrecisionScore(args.y_true, args.y_pred),
                   recall |-> RecallScore(args.y_true, args.y_pred),
                   f1 |-> F1Score(args.y_true, args.y_pred)]
    /\ epc' = "auc"
    /\ UNCHANGED <<cvVars, args, auc, printed, caught, result, first, build>>

\* An outcome of a computation that may raise.
Raised == [raised |-> TRUE, value |-> NaN]
Value(v) == [raised |-> FALSE, value |-> v]

\* The area under the ROC curve of scores against the rows of yt that are
\* positive: the share of (positive, negative) pairs ranked right, ties half.
PairwiseAuc(positive, scores) ==
    LET P == {i \in 1..Len(scores) : positive[i]}
        N == {i \in 1..Len(scores) : ~positive[i]}
        won == Cardinality({pq \in P \X N : scores[pq[1]] > scores[pq[2]]})
        tied == Cardinality({pq \in P \X N : scores[pq[1]] = scores[pq[2]]})
    IN  Rat(2 * won + tied, 2 * Cardinality(P) * Cardinality(N))

\* _binary_roc_auc_score: undefined on a single class, where the installed
\* version either raises ValueError or warns and returns NaN.
BinaryAuc(positive, scores) ==
    IF (\A i \in 1..Len(scores) : positive[i]) \/ (\A i \in 1..Len(scores) : ~positive[i])
    THEN (IF build = "raise" THEN Raised ELSE Value(NaN))
    ELSE Value(PairwiseAuc(positive, scores))

Classes(yt) == Ascending(Range(yt))

\* Line 123: roc_auc_score(y_true, y_pred_proba[:, 1]).  A multi-class y_true
\* with a one-dimensional score raises; the positive class is the greater label.
RocAucBinary(yt, proba) ==
    IF Cardinality(Range(yt)) > 2 THEN Raised
    ELSE LET top == Classes(yt)[Len(Classes(yt))]
         IN  BinaryAuc([i \in Rows(yt) |-> yt[i] = top], [i \in Rows(yt) |-> proba.rows[i][2]])

\* Line 126: roc_auc_score(y_true, y_pred_proba, multi_class='ovr',
\* average='weighted') on a matrix of more than two columns: the rows must sum
\* to one and the columns be as many as the classes of y_true; the result is
\* the one-vs-rest AUC of each class weighted by its support.
RocAucOvr(yt, proba) ==
    LET cols == Len(proba.rows[1])
        cls == Classes(yt)
    IN  IF \E i \in Rows(yt) : SumInts(proba.rows[i]) # 2 THEN Raised
        ELSE IF Len(cls) # cols THEN Raised
        ELSE Value(SumSeq([c \in 1..cols |->
                 Mul(Rat(CountOf(yt, cls[c]), Len(yt)),
                     PairwiseAuc([i \in Rows(yt) |-> yt[i] = cls[c]],
                                 [i \in Rows(yt) |-> proba.rows[i][c]]))]))

\* The body of the try block, lines 122-126.  shape[1] of a one-dimensional
\* array raises IndexError.
TryAuc(yt, proba) ==
    IF proba.ndim = 1 THEN Raised
    ELSE IF Len(proba.rows[1]) = 2 THEN RocAucBinary(yt, proba)
    ELSE RocAucOvr(yt, proba)

\* An except clause that does not cover the exception raised: it leaves the function.
Uncaught ==
    /\ epc' = "raised"
    /\ UNCHANGED <<auc, caught>>

\* Lines 127-128: the bare except clause.
Except ==
    /\ auc' = None
    /\ caught' = TRUE
    /\ epc' = "log"

\* Lines 117-128.
ClfAuc ==
    /\ epc = "auc" /\ args.fn = "clf"
    /\ IF args.y_pred_proba = NoProba
       THEN auc' = None /\ epc' = "log" /\ UNCHANGED caught
       ELSE IF TryAuc(args.y_true, args.y_pred_proba).raised
            THEN Except
            ELSE /\ auc' = TryAuc(args.y_true, args.y_pred_proba).value
                 /\ epc' = "log"
                 /\ UNCHANGED caught
    /\ UNCHANGED <<cvVars, args, metrics, printed, result, first, build>>

\* y_true.value_counts(): the labels by falling count, equal counts in the
\* order the labels first appear.
RECURSIVE ByCount(_, _)
ByCount(labels, yt) ==
    IF labels = <<>> THEN <<>>
    ELSE LET i == CHOOSE a \in 1..Len(labels) :
                    /\ \A b \in 1..Len(labels) : CountOf(yt, labels[a]) >= CountOf(yt, labels[b])
                    /\ \A b \in 1..(a - 1) : CountOf(yt, labels[b]) < CountOf(yt, labels[a])
         IN  <<<<labels[i], CountOf(yt, labels[i])>>>>
             \o ByCount([j \in 1..(Len(labels) - 1) |-> IF j < i THEN labels[j] ELSE labels[j + 1]], yt)

ValueCounts(yt) == ByCount(FirstSeen(yt, Len(yt)), yt)

\* Lines 132-147: the label table and the metrics table, with an auc column
\* only when auc is not None.
ClfTables ==
    << [title |-> "[lunax]> label information:",
        header |-> <<"label", "count">>,
        row |-> ValueCounts(args.y_true)],
       [title |-> "[lunax]> model evaluation results:",
        header |-> <<"accuracy", "precision", "recall", "f1">>
                   \o (IF auc # None THEN <<"auc">> ELSE <<>>),
        row |-> <<Fmt(metrics.accuracy, 2), Fmt(metrics.precision, 2),
                  Fmt(metrics.recall, 2), Fmt(metrics.f1, 2)>>
                \o (IF auc # None THEN <<Fmt(auc, 2)>> ELSE <<>>)] >>

\* Lines 130-147.
ClfLog ==
    /\ epc = "log" /\ args.fn = "clf"
    /\ printed' = IF args.log_info THEN ClfTables ELSE <<>>
    /\ epc' = "return"
    /\ UNCHANGED <<cvVars, args, metrics, auc, caught, result, first, build>>

\* The four metrics of lines 149-154.
ClfBase ==
    [accuracy |-> metrics.accuracy, precision |-> metrics.precision,
     recall |-> metrics.recall, f1 |-> metrics.f1]

\* A mapping that always carries the auc key.
ClfResultAlwaysAuc ==
    [accuracy |-> metrics.accuracy, precision |-> metrics.precision,
     recall |-> metrics.recall, f1 |-> metrics.f1, auc |-> auc]

\* Lines 149-157: the mapping, with the auc key only when auc is not None.
ClfResult ==
    IF auc # None
    THEN [accuracy |-> metrics.accuracy, precision |-> metrics.precision,
          recall |-> metrics.recall, f1 |-> metrics.f1, auc |-> auc]
    ELSE ClfBase

\* Lines 149-159.
ClfReturn ==
    /\ epc = "return" /\ args.fn = "clf"
    /\ result' = ClfResult
    /\ epc' = "returned"
    /\ UNCHANGED <<cvVars, args, metrics, auc, printed, caught, first, build>>

\* The evaluator is called a second time on the same data with one argument
\* changed: log_info flipped, or y_pred_proba left out.
Again ==
    /\ epc = "returned"
    /\ first = Unset
    /\ \E change \in {"log_info", "y_pred_proba"} :
          /\ change = "y_pred_proba" => args.y_pred_proba # NoProba
          /\ first' = [args |-> args, result |-> result, printed |-> printed,
                       caught |-> caught, change |-> change]
          /\ args' = IF change = "log_info" THEN [args EXCEPT !.log_info = ~@]
                     ELSE [args EXCEPT !.y_pred_proba = NoProba]
    /\ metrics' = Unset
    /\ auc' = None
    /\ printed' = <<>>
    /\ caught' = FALSE
    /\ result' = Unset
    /\ epc' = "start"
    /\ UNCHANGED <<cvVars, build>>

EvNext ==
    \/ RegCompute
    \/ RegLog
    \/ RegReturn
    \/ ClfCompute
    \/ ClfAuc
    \/ ClfLog
    \/ ClfReturn
    \/ Again

\* Calls of reg_evaluate and clf_evaluate on up to EvalRows rows.
SpecEval == EvInit /\ [][EvNext]_vars

\* ------------------------------------------- properties of _cross_validate

AllRows == 0..(Len(y) - 1)

\* The labels of y each have fewer than k_fold rows.
EveryClassTooSmall ==
    \A c \in Range(y) : Cardinality({i \in 1..Len(y) : y[i] = c}) < k_fold

\* C1: in every state of a call the printed lines are the reports of folds
\* 1, 2, ... in ascending order, each fold once, 1-indexed; an averaged report
\* is only ever the line after the k_fold-th fold report and is the last line;
\* a call that returns has printed exactly k_fold fold reports and then one
\* averaged report.
C1_ReportSequence ==
    /\ \A i \in 1..Len(out) :
          IF i <= k_fold
          THEN out[i].kind = "fold" /\ out[i].fold = i /\ out[i].of = k_fold
          ELSE out[i].kind = "average" /\ i = k_fold + 1
    /\ Len(out) <= k_fold + 1
    /\ pc = "returned" => Len(out) = k_fold + 1
    /\ pc # "returned" => Len(out) <= k_fold

C1_Witness ==
    /\ pc = "returned" /\ k_fold = 3
    /\ Len(out) = 4 /\ out[3].fold = 3 /\ out[4].kind = "average"

\* C2: once the loop has its folds there are k_fold of them; in each the train
\* and validation rows are disjoint and together are all rows, and every row
\* is a validation row of exactly one fold.  The plain splitter yields them
\* for every 2 <= k_fold <= n, the stratified one whenever moreover some
\* class has k_fold rows.
C2_FoldsPartition ==
    /\ fold >= 1 =>
          /\ Len(folds) = k_fold
          /\ \A f \in 1..k_fold :
                /\ Range(folds[f].train) \cap Range(folds[f].val) = {}
                /\ Range(folds[f].train) \cup Range(folds[f].val) = AllRows
          /\ \A r \in AllRows :
                Cardinality({f \in 1..k_fold : r \in Range(folds[f].val)}) = 1
    /\ (pc = "raised" /\ calls = <<>>) =>
          \/ k_fold < 2
          \/ k_fold > Len(y)
          \/ is_classifier /\ EveryClassTooSmall

C2_Witness ==
    /\ pc = "returned" /\ Len(y) = 4 /\ k_fold = 3 /\ Len(folds) = 3
    /\ Len(folds[1].val) = 2 /\ Len(folds[3].val) = 1

\* C3: a fit or predict call that raised is the last call the model received
\* (no retry, no call of a later fold) and the function has ended raising; the
\* lines printed are exactly the reports of the folds before the failing one,
\* with no report of the failing fold and no averaged report.
C3_FailurePropagates ==
    \A j \in 1..Len(calls) :
        ~calls[j].ok =>
            /\ j = Len(calls)
            /\ pc = "raised"
            /\ calls[j].fold = fold
            /\ Len(calls) = 2 * (fold - 1) + (IF calls[j].op = "fit" THEN 1 ELSE 2)
            /\ Len(out) = fold - 1
            /\ \A i \in 1..Len(out) : out[i].kind = "fold" /\ out[i].fold = i

C3_Witness ==
    /\ pc = "raised" /\ fold = 2 /\ Len(calls) = 3 /\ ~calls[3].ok
    /\ Len(out) = 1

\* C9: the averaged report shows, for each metric of the pair chosen by
\* is_classifier, the sum of the k_fold per-fold values divided by k_fold,
\* and names the same metrics as every per-fold report of the call.
C9_AverageIsMean ==
    pc = "returned" =>
        LET avg == out[Len(out)]
            col(j) == [i \in 1..k_fold |-> Pair(fold_scores[i])[j]]
        IN  /\ Len(fold_scores) = k_fold
            /\ avg.kind = "average"
            /\ avg.values = <<Fmt(DivInt(SumSeq(col(1)), k_fold), 4),
                              Fmt(DivInt(SumSeq(col(2)), k_fold), 4)>>
            /\ avg.names = (IF is_classifier THEN <<"Accuracy", "F1">>
                            ELSE <<"MSE", "R2">>)
            /\ \A i \in 1..k_fold :
                  /\ out[i].names = avg.names
                  /\ out[i].values = <<Fmt(col(1)[i], 4), Fmt(col(2)[i], 4)>>

\* Folds of different sizes, and per-fold values that differ.
C9_Witness ==
    /\ pc = "returned" /\ Len(y) = 3 /\ k_fold = 2 /\ is_classifier
    /\ fold_scores[1].accuracy = Rat(1, 2) /\ fold_scores[2].accuracy = One
    /\ out[3].values[1] = Fmt(Rat(3, 4), 4)

\* C10: the model's calls are fit, predict, fit, predict, ...: the calls of
\* fold i are the fit on fold i's training rows and then the predict on fold
\* i's validation rows, which share no row; the fit of fold i + 1 comes after
\* the report of fold i; a call that returns made exactly k_fold fits and
\* k_fold predicts and leaves the model fitted on the training rows of the
\* last fold, which are not all rows.
C10_FitPredictAlternate ==
    /\ \A j \in 1..Len(calls) :
          /\ calls[j].fold = (j + 1) \div 2
          /\ calls[j].op = (IF j % 2 = 1 THEN "fit" ELSE "predict")
          /\ calls[j].rows = (IF j % 2 = 1 THEN folds[calls[j].fold].train
                              ELSE folds[calls[j].fold].val)
          /\ j % 2 = 0 => Range(calls[j].rows) \cap Range(calls[j - 1].rows) = {}
    /\ Len(calls) >= 1 => Len(out) >= (Len(calls) - 1) \div 2
    /\ pc = "returned" =>
          /\ Len(calls) = 2 * k_fold
          /\ fitted = folds[k_fold].train
          /\ Range(fitted) # AllRows

C10_Witness ==
    /\ pc = "returned" /\ k_fold = 3 /\ Len(calls) = 6
    /\ calls[6].op = "predict" /\ calls[6].fold = 3

BaseKeys == {"accuracy", "precision", "recall", "f1"}

\* C4: when the AUC computation raised (while reading the shape included),
\* clf_evaluate does not end raising: auc stays None, the returned mapping has
\* exactly the keys accuracy, precision, recall and f1, and a call on the same
\* data with y_pred_proba=None returns the same mapping.
C4_AucFailureSwallowed ==
    /\ epc # "raised"
    /\ caught => auc = None
    /\ (epc = "returned" /\ caught) => DOMAIN result = BaseKeys
    /\ (epc = "returned" /\ first # Unset /\ first.change = "y_pred_proba" /\ first.caught)
          => result = first.result

\* The first call read the shape of a one-dimensional array; the second call
\* passed no probabilities.
C4_Witness ==
    /\ epc = "returned" /\ first # Unset /\ first.change = "y_pred_proba"
    /\ first.caught /\ first.args.y_pred_proba.ndim = 1
    /\ result = first.result /\ DOMAIN result = BaseKeys

\* A matrix of at least two columns, one row per row of yt, every row summing to one.
WellFormed(proba, yt) ==
    /\ proba.ndim = 2
    /\ Len(proba.rows) = Len(yt)
    /\ \A i \in 1..Len(proba.rows) :
          Len(proba.rows[i]) >= 2 /\ SumInts(proba.rows[i]) = 2

\* C5 as claimed: the returned mapping has no auc key when y_pred_proba is
\* None, has one when y_pred_proba is a well-formed probability matrix, and
\* has one only when probabilities were passed and the computation did not raise.
C5_AucPresence ==
    (epc = "returned" /\ args.fn = "clf") =>
        /\ args.y_pred_proba = NoProba => "auc" \notin DOMAIN result
        /\ WellFormed(args.y_pred_proba, args.y_true) => "auc" \in DOMAIN result
        /\ "auc" \in DOMAIN result => (args.y_pred_proba # NoProba /\ ~caught)

\* C5, amended: the auc key is present for every well-formed probability
\* matrix that has one column for each class occurring in y_true; the rest as claimed.
C5_AucPresenceWhenDefined ==
    (epc = "returned" /\ args.fn = "clf") =>
        /\ args.y_pred_proba = NoProba => "auc" \notin DOMAIN result
        /\ ( /\ WellFormed(args.y_pred_proba, args.y_true)
             /\ Len(args.y_pred_proba.rows[1]) = Cardinality(Range(args.y_true)) )
              => "auc" \in DOMAIN result
        /\ "auc" \in DOMAIN result => (args.y_pred_proba # NoProba /\ ~caught)

\* A three-class problem with a three-column matrix, and the key returned.
C5_Witness ==
    /\ epc = "returned" /\ args.fn = "clf"
    /\ WellFormed(args.y_pred_proba, args.y_true)
    /\ Len(args.y_pred_proba.rows[1]) = 3 /\ Cardinality(Range(args.y_true)) = 3
    /\ "auc" \in DOMAIN result /\ result.auc = Rat(3, 4)

\* C7: an evaluator call prints nothing with log_info=False and its tables
\* with log_info=True, and two calls of reg_evaluate or clf_evaluate that
\* differ only in log_info return the same mapping: the same keys, each with
\* the same full-precision value.
C7_LogInfoOnlyPrints ==
    /\ epc \in {"return", "returned"} => (printed = <<>> <=> ~args.log_info)
    /\ (epc = "returned" /\ first # Unset /\ first.change = "log_info")
          => (result = first.result /\ DOMAIN result = DOMAIN first.result)

\* Two reg_evaluate calls on an MSE of 1/3, which the table shows as 0.33.
C7_Witness ==
    /\ epc = "returned" /\ first # Unset /\ first.change = "log_info"
    /\ args.fn = "reg" /\ first.args.log_info /\ ~args.log_info
    /\ result.mse = Rat(1, 3) /\ first.result.mse = Rat(1, 3)
    /\ first.printed[2].row[2] = Fmt(Rat(33, 100), 2)

\* C8 as claimed: reg_evaluate of a prediction equal to y_true returns
\* rmse = mse = mae = 0 and r2 = 1.
C8_PerfectPrediction ==
    (epc = "returned" /\ args.fn = "reg" /\ args.y_true = args.y_pred) =>
        /\ result.rmse = Zero /\ result.mse = Zero /\ result.mae = Zero
        /\ result.r2 = One

\* C8, amended: the same for every y_true of at least two values.
C8_PerfectPredictionTwoRows ==
    (epc = "returned" /\ args.fn = "reg" /\ args.y_true = args.y_pred
        /\ Len(args.y_true) >= 2) =>
        /\ result.rmse = Zero /\ result.mse = Zero /\ result.mae = Zero
        /\ result.r2 = One

\* A perfect prediction of a constant y_true.
C8_Witness ==
    /\ epc = "returned" /\ args.fn = "reg"
    /\ args.y_true = <<1, 1>> /\ args.y_pred = <<1, 1>>
    /\ result.r2 = One /\ result.rmse = Zero

=============================================================================
